---- MODULE Spec2Model ----
(***************************************************************************)
(* balance_nodes of sra_dispatch: partitioning of SRA runs over compute    *)
(* nodes, with the files it resets and writes.                             *)
(*                                                                         *)
(* Numbers.  run_1_size is a float; the model holds it as a fraction       *)
(* num/den.  disk_req values are whole numbers in the model.  The average  *)
(* avg_disk_per_node = sum / nodes is held exactly as q + r/nodes          *)
(* (0 <= r < nodes); IEEE inf and nan, which numpy returns for a division  *)
(* by zero, are separate kinds.  Rounding of floats is not modelled.       *)
(***************************************************************************)
EXTENDS Integers, Sequences, FiniteSets, TLC

\* ------------------------------------------------------------------ bounds
MaxItems == 4
MaxManyItems == 6
MaxConcItems == 3
MaxAdjustItems == 3
MaxSizeItems == 3
MaxLoopItems == 4

Runs == {1, 2}

\* ------------------------------------------------------- program constants
Increment == 1000000000
Multiplier == 20

HardFolder == "sras_to_process"
HardQueue == "sra_queue.txt"
AltFolder == "alt_lists"
AltQueue == "alt_queue.txt"
FolderNames == {HardFolder, AltFolder}
QueueNames == {HardQueue, AltQueue}

\* ------------------------------------------------------------------ floats
Fin(q, r) == [kind |-> "fin", q |-> q, r |-> r]
Inf == [kind |-> "inf", q |-> 0, r |-> 0]
NaN == [kind |-> "nan", q |-> 0, r |-> 0]
Unset == [kind |-> "unset", q |-> 0, r |-> 0]

\* a / n for a numpy number a >= 0 and a Python int n >= 0
Divide(a, n) ==
    IF n = 0 THEN (IF a = 0 THEN NaN ELSE Inf)
    ELSE Fin(a \div n, a % n)

\* x > avg, x a whole number or nan (xnan)
GreaterThan(xnan, x, avg) ==
    IF xnan \/ avg.kind # "fin" THEN FALSE
    ELSE x > avg.q

LessOrEqual(x, avg) ==
    IF avg.kind = "inf" THEN TRUE
    ELSE IF avg.kind = "nan" THEN FALSE
    ELSE x <= avg.q

\* x < avg, x a whole number
LessThan(x, avg) ==
    IF avg.kind = "inf" THEN TRUE
    ELSE IF avg.kind = "nan" THEN FALSE
    ELSE x < avg.q \/ (x = avg.q /\ avg.r > 0)

AddIncrementReset(avg) ==
    IF avg.kind = "fin" THEN Fin(Increment, 0) ELSE avg

AddIncrement(avg) ==
    IF avg.kind = "fin" THEN Fin(avg.q + Increment, avg.r) ELSE avg

\* ------------------------------------------------------------- convert_size
RawNaN == [nan |-> TRUE, num |-> 0, den |-> 1]
Num(n, d) == [nan |-> FALSE, num |-> n, den |-> d]

\* a str value: the sequence of its characters.  The strings of the model are
\* made of digits, blanks and letters; signs, points and exponents are left out
Str(chars) == [nan |-> FALSE, str |-> chars]
IsStr(value) == "str" \in DOMAIN value

Digits == << "0", "1", "2", "3", "4", "5", "6", "7", "8", "9" >>
DigitChars == { Digits[i] : i \in 1..Len(Digits) }
DigitValue(c) == (CHOOSE i \in 1..Len(Digits) : Digits[i] = c) - 1

GB == << "G", "B" >>
MB == << "M", "B" >>
KB == << "K", "B" >>
KiloFactor == 1024

\* s.strip()
Strip(s) ==
    LET kept == { i \in 1..Len(s) : s[i] # " " }
    IN  IF kept = {} THEN <<>>
        ELSE SubSeq(s, CHOOSE i \in kept : \A j \in kept : i <= j,
                       CHOOSE i \in kept : \A j \in kept : i >= j)

\* unit in s
Contains(s, unit) ==
    \E i \in 1..(Len(s) - 1) : s[i] = unit[1] /\ s[i + 1] = unit[2]

\* s.replace(unit, "")
RECURSIVE Replace(_, _)
Replace(s, unit) ==
    IF Len(s) < 2 THEN s
    ELSE IF s[1] = unit[1] /\ s[2] = unit[2]
         THEN Replace(SubSeq(s, 3, Len(s)), unit)
         ELSE << s[1] >> \o Replace(Tail(s), unit)

\* float(s) returns: s is a run of digits with blanks around it
ParsesAsFloat(s) ==
    /\ Strip(s) # <<>>
    /\ \A i \in 1..Len(Strip(s)) : Strip(s)[i] \in DigitChars

RECURSIVE DecimalValue(_)
DecimalValue(t) ==
    IF t = <<>> THEN 0
    ELSE DecimalValue(SubSeq(t, 1, Len(t) - 1)) * 10 + DigitValue(t[Len(t)])

\* float(s) where it returns
FloatValue(s) == DecimalValue(Strip(s))

\* convert_size(size_str) lets the ValueError of a float() call of its
\* except branch out
ValueErrorRaised(size_str) ==
    /\ IsStr(size_str)
    /\ ~ParsesAsFloat(Strip(size_str.str))
    /\ LET s == Strip(size_str.str)
       IN  IF Contains(s, GB) THEN ~ParsesAsFloat(Replace(s, GB))
           ELSE IF Contains(s, MB) THEN ~ParsesAsFloat(Replace(s, MB))
           ELSE IF Contains(s, KB) THEN ~ParsesAsFloat(Replace(s, KB))
           ELSE FALSE

\* the value convert_size(size_str) returns, where it returns
convert_size(size_str) ==
    IF IsStr(size_str)
    THEN LET s == Strip(size_str.str)
         IN  IF ParsesAsFloat(s) THEN Num(FloatValue(s), 1)
             ELSE IF Contains(s, GB)
                  THEN Num(FloatValue(Replace(s, GB)) * KiloFactor, 1)
             ELSE IF Contains(s, MB) THEN Num(FloatValue(Replace(s, MB)), 1)
             ELSE IF Contains(s, KB)
                  THEN Num(FloatValue(Replace(s, KB)), KiloFactor)
             ELSE Num(0, 1)
    ELSE IF size_str.nan THEN Num(0, 1)
    ELSE Num(size_str.num, size_str.den)

\* run_1_size * 20
DiskReq(size) ==
    (size.num \div size.den) * Multiplier
        + ((size.num % size.den) * Multiplier) \div size.den

RECURSIVE SumDiskReq(_)
SumDiskReq(rows) ==
    IF rows = <<>> THEN 0 ELSE rows[1].disk_req + SumDiskReq(Tail(rows))

MaxDiskReq(rows) ==
    CHOOSE m \in {rows[i].disk_req : i \in 1..Len(rows)} :
        \A i \in 1..Len(rows) : rows[i].disk_req <= m

\* df.sort_values(by="disk_req", ascending=False); the order of equal keys is
\* left to the sorting routine
SortedOrders(rows) ==
    { p \in Permutations(1..Len(rows)) :
        \A i, j \in 1..Len(rows) :
            i < j => rows[p[i]].disk_req >= rows[p[j]].disk_req }

\* ------------------------------------------------------------ text of files
EmptyText == << <<>> >>

\* "\n".join(items)
Join(items) ==
    IF items = <<>> THEN EmptyText
    ELSE [i \in 1..Len(items) |-> <<items[i]>>]

\* what a file opened with "a" holds after write(new)
AppendText(old, new) ==
    SubSeq(old, 1, Len(old) - 1)
        \o << old[Len(old)] \o new[1] >>
        \o Tail(new)

Tokens(text) ==
    UNION { { text[i][j] : j \in 1..Len(text[i]) } : i \in 1..Len(text) }

\* f"sras_to_process/SRA_set_{group}"
GroupFilePath(g) == [folder |-> HardFolder, set |-> g]

NoFiles == <<>>
AbsentFolder == [exists |-> FALSE, files |-> NoFiles]
AbsentFile == [exists |-> FALSE, text |-> EmptyText]

\* open(path, "a").write(text) on a file that may not exist yet
AppendToFile(file, text) ==
    [exists |-> TRUE,
     text |-> IF file.exists THEN AppendText(file.text, text)
              ELSE AppendText(EmptyText, text)]

\* the same for a file kept in a folder
AppendInFolder(folder, name, text) ==
    [folder EXCEPT !.files =
        (name :> (IF name \in DOMAIN folder.files
                  THEN AppendText(folder.files[name], text)
                  ELSE AppendText(EmptyText, text))) @@ folder.files]

\* ---------------------------------------------------------- cpu reallocation
CpuPerNodeStrict(n, groups, base) ==
    IF n \div groups > 2 THEN 2 * base ELSE base

CpuPerNode(n, groups, base) ==
    IF n \div groups >= 2 THEN 2 * base ELSE base

\* -------------------------------------------------------------------- state
VARIABLES
    pc,                 \* position of each run in balance_nodes
    err,                \* the exception a run ended with
    configs,            \* the configs dict of each run
    df,                 \* the input DataFrame of each run
    nodes,
    avg_disk_per_node,
    max_size_SRA,
    df_sorted,
    group,
    curr_group,
    all_groups,
    node_size,
    cpu_per_node,
    folders,            \* directories of the working directory
    query_files,        \* queue files of the working directory
    configs_dir,        \* whether the directory configs/ exists
    submit_json         \* configs/submit_configs.json

locals == << configs, df, nodes, avg_disk_per_node, max_size_SRA, df_sorted,
             group, curr_group, all_groups, node_size, cpu_per_node >>
fsvars == << folders, query_files, configs_dir, submit_json >>
vars == << pc, err, locals, fsvars >>

\* ------------------------------------------------------------------- inputs
Names1 == << "A", "B", "C", "D", "E", "F", "G", "H" >>
Names2 == << "P", "Q", "R", "S", "T", "U", "V", "W" >>
Accession(r, i) == IF r = 1 THEN Names1[i] ELSE Names2[i]

BigSize == Num(58000000, 1)
RawSizes == { RawNaN, Num(1, 2), Num(3, 2), Num(2, 1), Num(5, 2) }
UniformSizes == { Num(1, 2) }
AdjustSizes == { Num(1, 2), Num(5, 2), BigSize }

\* sizes given as text: "2", " 1 ", "1GB", "2MB", "512KB", "1 GB", and the
\* malformed "GB", "1GBx", "x", ""; each size that converts has a whole
\* disk_req
SizeStrings ==
    { Str(<< "2" >>), Str(<< " ", "1", " " >>), Str(<< "1", "G", "B" >>),
      Str(<< "2", "M", "B" >>), Str(<< "5", "1", "2", "K", "B" >>),
      Str(<< "1", " ", "G", "B" >>), Str(<< "G", "B" >>),
      Str(<< "1", "G", "B", "x" >>), Str(<< "x" >>), Str(<<>>) }
SizesCpuChoices == { <<4, 4>>, <<4, 2>> }

LoopSizes == { RawNaN, Num(1, 2), Num(5, 2) }

\* the lists of at most maxlen sizes; one item of BigSize at most, which keeps
\* every sum below 2^31
SizeLists(sizes, maxlen) ==
    { s \in UNION { [1..n -> sizes] : n \in 0..maxlen } :
        Cardinality({ i \in 1..Len(s) : s[i] = BigSize }) <= 1 }

Frame(r, s) ==
    [i \in 1..Len(s) |->
        [run_1_accession |-> Accession(r, i), run_1_size |-> s[i], disk_req |-> 0]]

Config(cpu, loc) ==
    [max_cpu_request |-> cpu[1], cpu_per_node |-> cpu[2],
     sra_list_folder |-> loc[1], sra_query_file |-> loc[2],
     disk_request |-> Unset]

CpuChoices == { <<1, 2>>, <<4, 0>>, <<4, 4>>, <<4, 2>> }
ManyCpuChoices == { <<4, 4>>, <<6, 2>> }
ConcCpuChoices == { <<4, 4>>, <<4, 2>> }
AdjustCpuChoices == { <<1, 2>>, <<4, 4>>, <<4, 2>>, <<16, 2>> }

HardLoc == << HardFolder, HardQueue >>
AltLoc == << AltFolder, AltQueue >>
Locations == { HardLoc, AltLoc }

StaleText == << << "STALE" >> >>
StaleIndex == << << GroupFilePath(1) >> >>
NoJson == [exists |-> FALSE, configs |-> Config(<<0, 0>>, HardLoc)]

FreshFs ==
    [folders |-> [f \in FolderNames |-> AbsentFolder],
     query_files |-> [q \in QueueNames |-> AbsentFile],
     configs_dir |-> TRUE]
StaleFs ==
    [folders |-> [f \in FolderNames |->
                    [exists |-> TRUE, files |-> (1 :> StaleText)]],
     query_files |-> [q \in QueueNames |-> [exists |-> TRUE, text |-> StaleIndex]],
     configs_dir |-> TRUE]
BareFs == [FreshFs EXCEPT !.configs_dir = FALSE]
FsChoices == { FreshFs, StaleFs, BareFs }

\* a first run, a run over the files of an earlier one, a run configured with
\* another location over the files of an earlier one or in an empty
\* directory, a run without the directory configs/
Scenarios ==
    { << HardLoc, FreshFs >>, << HardLoc, StaleFs >>, << AltLoc, StaleFs >>,
      << AltLoc, FreshFs >>, << HardLoc, BareFs >> }

\* every cpu configuration in a first run, one of them in every scenario
Setups ==
    { << cpu, << HardLoc, FreshFs >> >> : cpu \in CpuChoices }
        \cup { << << 4, 2 >>, sc >> : sc \in Scenarios }

LoopCpuChoices == { <<1, 2>>, <<4, 4>>, <<4, 2>> }
LoopSetups ==
    { << cpu, << HardLoc, FreshFs >> >> : cpu \in LoopCpuChoices }
        \cup { << << 4, 2 >>, << AltLoc, FreshFs >> >> }

IdleConfig == Config(<<0, 0>>, HardLoc)

\* the state at the call of balance_nodes(df, configs), for the runs in active
Start(active, in1, in2, cfg1, cfg2, fs) ==
    /\ pc = [r \in Runs |-> IF r \in active THEN "nodes" ELSE "idle"]
    /\ err = [r \in Runs |-> "none"]
    /\ df = (1 :> Frame(1, in1)) @@ (2 :> Frame(2, in2))
    /\ configs = (1 :> cfg1) @@ (2 :> cfg2)
    /\ nodes = [r \in Runs |-> 0]
    /\ avg_disk_per_node = [r \in Runs |-> Unset]
    /\ max_size_SRA = [r \in Runs |-> [nan |-> TRUE, v |-> 0]]
    /\ df_sorted = [r \in Runs |-> <<>>]
    /\ group = [r \in Runs |-> 0]
    /\ curr_group = [r \in Runs |-> <<>>]
    /\ all_groups = [r \in Runs |-> <<>>]
    /\ node_size = [r \in Runs |-> 0]
    /\ cpu_per_node = [r \in Runs |-> 0]
    /\ folders = fs.folders
    /\ query_files = fs.query_files
    /\ configs_dir = fs.configs_dir
    /\ submit_json = NoJson

\* one run, every size and configuration
Init ==
    \E s \in SizeLists(RawSizes, MaxItems), su \in Setups :
        Start({1}, s, <<>>, Config(su[1], su[2][1]), IdleConfig, su[2][2])

\* one run, many items of one size
InitMany ==
    \E s \in SizeLists(UniformSizes, MaxManyItems), cpu \in ManyCpuChoices,
       loc \in Locations, fs \in FsChoices :
        Start({1}, s, <<>>, Config(cpu, loc), IdleConfig, fs)

\* one run, sizes far apart, for the adjustment of avg_disk_per_node
InitAdjust ==
    \E s \in SizeLists(AdjustSizes, MaxAdjustItems), cpu \in AdjustCpuChoices :
        Start({1}, s, <<>>, Config(cpu, HardLoc), IdleConfig, FreshFs)

\* one run, sizes given as text
InitSizes ==
    \E s \in SizeLists(SizeStrings, MaxSizeItems), cpu \in SizesCpuChoices :
        Start({1}, s, <<>>, Config(cpu, HardLoc), IdleConfig, FreshFs)

\* one run, for the course of the partitioning loop: a first run with 0, 1
\* and 2 nodes, and a run whose configured folder is not sras_to_process
InitLoop ==
    \E s \in SizeLists(LoopSizes, MaxLoopItems), su \in LoopSetups :
        Start({1}, s, <<>>, Config(su[1], su[2][1]), IdleConfig, su[2][2])

\* two runs in one working directory
InitConc ==
    \E s1, s2 \in SizeLists(UniformSizes, MaxConcItems),
       cpu1, cpu2 \in ConcCpuChoices, loc1, loc2 \in Locations,
       fs \in FsChoices :
        Start({1, 2}, s1, s2, Config(cpu1, loc1), Config(cpu2, loc2), fs)

\* ------------------------------------------------------------------ actions
Goto(r, label) == pc' = [pc EXCEPT ![r] = label]

Raise(r, exception) ==
    /\ pc' = [pc EXCEPT ![r] = "raised"]
    /\ err' = [err EXCEPT ![r] = exception]

\* nodes = max_cpu_request // cpu_per_node
ComputeNodes(r) ==
    /\ pc[r] = "nodes"
    /\ IF configs[r].cpu_per_node = 0
       THEN /\ Raise(r, "ZeroDivisionError")
            /\ UNCHANGED nodes
       ELSE /\ nodes' = [nodes EXCEPT ![r] =
                    configs[r].max_cpu_request \div configs[r].cpu_per_node]
            /\ Goto(r, "convert")
            /\ UNCHANGED err
    /\ UNCHANGED << configs, df, avg_disk_per_node, max_size_SRA, df_sorted,
                    group, curr_group, all_groups, node_size, cpu_per_node,
                    fsvars >>

\* df["run_1_size"].apply(convert_size); df["disk_req"] = df["run_1_size"] * 20
ConvertSizes(r) ==
    /\ pc[r] = "convert"
    /\ IF \E i \in 1..Len(df[r]) : ValueErrorRaised(df[r][i].run_1_size)
       THEN /\ Raise(r, "ValueError")
            /\ UNCHANGED df
       ELSE /\ df' = [df EXCEPT ![r] =
                    [i \in 1..Len(df[r]) |->
                        [df[r][i] EXCEPT
                            !.run_1_size = convert_size(df[r][i].run_1_size),
                            !.disk_req =
                                DiskReq(convert_size(df[r][i].run_1_size))]]]
            /\ Goto(r, "avg")
            /\ UNCHANGED err
    /\ UNCHANGED << configs, nodes, avg_disk_per_node, max_size_SRA,
                    df_sorted, group, curr_group, all_groups, node_size,
                    cpu_per_node, fsvars >>

\* avg_disk_per_node = df["disk_req"].sum() / nodes; max_size_SRA = ...max().
\* The sum of an empty column is the Python int 0 when the column has dtype
\* object and numpy's 0.0 when it has a numeric dtype, so that 0 / 0 raises
\* or yields nan.
ComputeAvg(r) ==
    /\ pc[r] = "avg"
    /\ \E outcome \in (IF df[r] = <<>> /\ nodes[r] = 0
                       THEN {"raise", "value"} ELSE {"value"}) :
        IF outcome = "raise"
        THEN /\ Raise(r, "ZeroDivisionError")
             /\ UNCHANGED << avg_disk_per_node, max_size_SRA >>
        ELSE /\ avg_disk_per_node' = [avg_disk_per_node EXCEPT ![r] =
                    Divide(SumDiskReq(df[r]), nodes[r])]
             /\ max_size_SRA' = [max_size_SRA EXCEPT ![r] =
                    IF df[r] = <<>> THEN [nan |-> TRUE, v |-> 0]
                    ELSE [nan |-> FALSE, v |-> MaxDiskReq(df[r])]]
             /\ Goto(r, "adjust")
             /\ UNCHANGED err
    /\ UNCHANGED << configs, df, nodes, df_sorted, group, curr_group,
                    all_groups, node_size, cpu_per_node, fsvars >>

\* one pass of: while max_size_SRA > avg_disk_per_node
AdjustPass(r) ==
    /\ pc[r] = "adjust"
    /\ GreaterThan(max_size_SRA[r].nan, max_size_SRA[r].v, avg_disk_per_node[r])
    /\ avg_disk_per_node' = [avg_disk_per_node EXCEPT ![r] = AddIncrement(@)]
    /\ UNCHANGED << pc, err, configs, df, nodes, max_size_SRA, df_sorted,
                    group, curr_group, all_groups, node_size, cpu_per_node,
                    fsvars >>

AdjustExit(r) ==
    /\ pc[r] = "adjust"
    /\ ~ GreaterThan(max_size_SRA[r].nan, max_size_SRA[r].v, avg_disk_per_node[r])
    /\ Goto(r, "sort")
    /\ UNCHANGED << err, locals, fsvars >>

\* df_sorted = df.sort_values(...); group = 0; curr_group = []; ...
SortItems(r) ==
    /\ pc[r] = "sort"
    /\ \E p \in SortedOrders(df[r]) :
        df_sorted' = [df_sorted EXCEPT ![r] =
                        [i \in 1..Len(df[r]) |-> df[r][p[i]]]]
    /\ group' = [group EXCEPT ![r] = 0]
    /\ curr_group' = [curr_group EXCEPT ![r] = <<>>]
    /\ all_groups' = [all_groups EXCEPT ![r] = <<>>]
    /\ node_size' = [node_size EXCEPT ![r] = 0]
    /\ Goto(r, "rmtree")
    /\ UNCHANGED << err, configs, df, nodes, avg_disk_per_node, max_size_SRA,
                    cpu_per_node, fsvars >>

\* if os.path.exists(sra_list_folder): shutil.rmtree(sra_list_folder)
ResetFolder(r) ==
    /\ pc[r] = "rmtree"
    /\ folders' = [folders EXCEPT ![configs[r].sra_list_folder] = AbsentFolder]
    /\ Goto(r, "remove")
    /\ UNCHANGED << err, locals, query_files, configs_dir, submit_json >>

\* if os.path.exists(sra_query_file): os.remove(sra_query_file)
ResetQueue(r) ==
    /\ pc[r] = "remove"
    /\ query_files' = [query_files EXCEPT ![configs[r].sra_query_file] = AbsentFile]
    /\ Goto(r, "mkdir")
    /\ UNCHANGED << err, locals, folders, configs_dir, submit_json >>

\* os.mkdir(sra_list_folder)
MakeFolder(r) ==
    /\ pc[r] = "mkdir"
    /\ IF folders[configs[r].sra_list_folder].exists
       THEN /\ Raise(r, "FileExistsError")
            /\ UNCHANGED folders
       ELSE /\ folders' = [folders EXCEPT ![configs[r].sra_list_folder] =
                            [exists |-> TRUE, files |-> NoFiles]]
            /\ Goto(r, "loop")
            /\ UNCHANGED err
    /\ UNCHANGED << locals, query_files, configs_dir, submit_json >>

\* df_sorted.drop(df_sorted.index[0])
DropFirstKeep(rows) == rows
DropFirst(rows) == Tail(rows)

Last(seq) == seq[Len(seq)]
FrontKeep(seq) == seq
Front(seq) == SubSeq(seq, 1, Len(seq) - 1)

\* while len(df_sorted) > 0: the condition is false
LoopExit(r) ==
    /\ pc[r] = "loop"
    /\ Len(df_sorted[r]) = 0
    /\ Goto(r, "index")
    /\ UNCHANGED << err, locals, fsvars >>

\* if len(df_sorted) == 1: drop the row and break
LoopLeftover(r) ==
    /\ pc[r] = "loop"
    /\ Len(df_sorted[r]) = 1
    /\ df_sorted' = [df_sorted EXCEPT ![r] = DropFirst(@)]
    /\ Goto(r, "index")
    /\ UNCHANGED << err, configs, df, nodes, avg_disk_per_node, max_size_SRA,
                    group, curr_group, all_groups, node_size, cpu_per_node,
                    fsvars >>

\* if node_size == 0: seed the group with the first row
LoopSeed(r) ==
    /\ pc[r] = "loop"
    /\ Len(df_sorted[r]) > 1
    /\ node_size[r] = 0
    /\ node_size' = [node_size EXCEPT ![r] = @ + Head(df_sorted[r]).disk_req]
    /\ curr_group' = [curr_group EXCEPT ![r] =
                        Append(@, Head(df_sorted[r]).run_1_accession)]
    /\ df_sorted' = [df_sorted EXCEPT ![r] = DropFirst(@)]
    /\ UNCHANGED << pc, err, configs, df, nodes, avg_disk_per_node,
                    max_size_SRA, group, all_groups, cpu_per_node, fsvars >>

\* node_size after the last row was accepted and dropped: the code adds
\* df_sorted["disk_req"].iloc[-1] after the drop
NodeSizeAfterAccept(size, accepted, remaining) ==
    size + Last(remaining).disk_req

\* if node_size + df_sorted["disk_req"].iloc[-1] < avg_disk_per_node
LoopAccept(r) ==
    /\ pc[r] = "loop"
    /\ Len(df_sorted[r]) > 1
    /\ node_size[r] # 0
    /\ LessThan(node_size[r] + Last(df_sorted[r]).disk_req, avg_disk_per_node[r])
    /\ curr_group' = [curr_group EXCEPT ![r] =
                        Append(@, Last(df_sorted[r]).run_1_accession)]
    /\ df_sorted' = [df_sorted EXCEPT ![r] = Front(@)]
    /\ node_size' = [node_size EXCEPT ![r] =
            NodeSizeAfterAccept(@, Last(df_sorted[r]), Front(df_sorted[r]))]
    /\ UNCHANGED << pc, err, configs, df, nodes, avg_disk_per_node,
                    max_size_SRA, group, all_groups, cpu_per_node, fsvars >>

\* else: group += 1; node_size = 0; append the group to its file
LoopClose(r) ==
    /\ pc[r] = "loop"
    /\ Len(df_sorted[r]) > 1
    /\ node_size[r] # 0
    /\ ~ LessThan(node_size[r] + Last(df_sorted[r]).disk_req, avg_disk_per_node[r])
    /\ group' = [group EXCEPT ![r] = @ + 1]
    /\ node_size' = [node_size EXCEPT ![r] = 0]
    /\ IF ~ folders[GroupFilePath(group[r] + 1).folder].exists
       THEN /\ Raise(r, "FileNotFoundError")
            /\ UNCHANGED << folders, all_groups, curr_group >>
       ELSE /\ folders' = [folders EXCEPT ![GroupFilePath(group[r] + 1).folder] =
                    AppendInFolder(@, GroupFilePath(group[r] + 1).set,
                                   Join(curr_group[r]))]
            /\ all_groups' = [all_groups EXCEPT ![r] =
                    Append(@, GroupFilePath(group[r] + 1))]
            /\ curr_group' = [curr_group EXCEPT ![r] = <<>>]
            /\ UNCHANGED << pc, err >>
    /\ UNCHANGED << configs, df, nodes, avg_disk_per_node, max_size_SRA,
                    df_sorted, cpu_per_node, query_files, configs_dir,
                    submit_json >>

\* with open("sra_queue.txt", "a") as batch: batch.write("\n".join(all_groups))
WriteIndex(r) ==
    /\ pc[r] = "index"
    /\ query_files' = [query_files EXCEPT ![HardQueue] =
                        AppendToFile(@, Join(all_groups[r]))]
    /\ Goto(r, "realloc")
    /\ UNCHANGED << err, locals, folders, configs_dir, submit_json >>

\* if nodes // len(all_groups) >= 2: cpu_per_node = 2 * ... else ...
ReallocCpu(r) ==
    /\ pc[r] = "realloc"
    /\ IF Len(all_groups[r]) = 0
       THEN /\ Raise(r, "ZeroDivisionError")
            /\ UNCHANGED cpu_per_node
       ELSE /\ cpu_per_node' = [cpu_per_node EXCEPT ![r] =
                    CpuPerNode(nodes[r], Len(all_groups[r]),
                               configs[r].cpu_per_node)]
            /\ Goto(r, "update")
            /\ UNCHANGED err
    /\ UNCHANGED << configs, df, nodes, avg_disk_per_node, max_size_SRA,
                    df_sorted, group, curr_group, all_groups, node_size,
                    fsvars >>

\* configs["process_configs"]["disk_request"] = ...; ["cpu_per_node"] = ...
UpdateConfigs(r) ==
    /\ pc[r] = "update"
    /\ configs' = [configs EXCEPT ![r] =
            [@ EXCEPT !.disk_request = avg_disk_per_node[r],
                      !.cpu_per_node = cpu_per_node[r]]]
    /\ Goto(r, "json")
    /\ UNCHANGED << err, df, nodes, avg_disk_per_node, max_size_SRA, df_sorted,
                    group, curr_group, all_groups, node_size, cpu_per_node,
                    fsvars >>

\* with open("configs/submit_configs.json", "w"): json.dump(configs); return
WriteSubmitJson(r) ==
    /\ pc[r] = "json"
    /\ IF ~ configs_dir
       THEN /\ Raise(r, "FileNotFoundError")
            /\ UNCHANGED submit_json
       ELSE /\ submit_json' = [exists |-> TRUE, configs |-> configs[r]]
            /\ Goto(r, "done")
            /\ UNCHANGED err
    /\ UNCHANGED << locals, folders, query_files, configs_dir >>

Next ==
    \/ \E r \in Runs : ComputeNodes(r)
    \/ \E r \in Runs : ConvertSizes(r)
    \/ \E r \in Runs : ComputeAvg(r)
    \/ \E r \in Runs : AdjustPass(r)
    \/ \E r \in Runs : AdjustExit(r)
    \/ \E r \in Runs : SortItems(r)
    \/ \E r \in Runs : ResetFolder(r)
    \/ \E r \in Runs : ResetQueue(r)
    \/ \E r \in Runs : MakeFolder(r)
    \/ \E r \in Runs : LoopExit(r)
    \/ \E r \in Runs : LoopLeftover(r)
    \/ \E r \in Runs : LoopSeed(r)
    \/ \E r \in Runs : LoopAccept(r)
    \/ \E r \in Runs : LoopClose(r)
    \/ \E r \in Runs : WriteIndex(r)
    \/ \E r \in Runs : ReallocCpu(r)
    \/ \E r \in Runs : UpdateConfigs(r)
    \/ \E r \in Runs : WriteSubmitJson(r)

Spec == Init /\ [][Next]_vars
SpecMany == InitMany /\ [][Next]_vars
SpecConc == InitConc /\ [][Next]_vars
SpecSizes == InitSizes /\ [][Next]_vars
\* balance_nodes is straight-line code run to its end by one thread: a step
\* that can be taken is taken
FairAdjust == InitAdjust /\ [][Next]_vars /\ WF_vars(Next)
FairLoop == InitLoop /\ [][Next]_vars /\ WF_vars(Next)

\* ------------------------------------------------------------------- claims
AfterLoop == { "index", "realloc", "update", "json", "done" }
PastAdjust == { "sort", "rmtree", "remove", "mkdir", "loop" } \cup AfterLoop
PastReset == { "remove", "mkdir", "loop" } \cup AfterLoop

\* the item ids held by the group files sras_to_process/SRA_set_<k>
WrittenIds ==
    UNION { Tokens(folders[HardFolder].files[k]) :
                k \in DOMAIN folders[HardFolder].files }

InputIds(r) == { df[r][i].run_1_accession : i \in 1..Len(df[r]) }

\* C1: once the partitioning loop has finished (node_count >= 1), every input
\* item id is in some written group file.
C1_Conservation ==
    \A r \in Runs :
        (pc[r] \in AfterLoop /\ nodes[r] >= 1) => InputIds(r) \subseteq WrittenIds

\* C2: after every accepted addition of a tail item, node_size is strictly
\* below avg_disk_per_node, except in the group seeded with the largest item
\* (the first group).
C2_ThresholdRespect ==
    [][ \A r \in Runs :
          ( /\ pc[r] = "loop"
            /\ node_size[r] # 0
            /\ Len(curr_group'[r]) = Len(curr_group[r]) + 1
            /\ group[r] >= 1 )
          => LessThan(node_size'[r], avg_disk_per_node[r]) ]_vars

ScenarioFrame ==
    << [run_1_accession |-> "A", run_1_size |-> Num(5, 2), disk_req |-> 50],
       [run_1_accession |-> "B", run_1_size |-> Num(2, 1), disk_req |-> 40],
       [run_1_accession |-> "C", run_1_size |-> Num(3, 2), disk_req |-> 30],
       [run_1_accession |-> "D", run_1_size |-> Num(1, 2), disk_req |-> 10] >>

\* C3: items A:50, B:40, C:30, D:10 with two nodes give disk_per_node 65 and
\* exactly the two groups {A, D} and {C, B}.
C3_Scenario ==
    ( /\ df[1] = ScenarioFrame
      /\ nodes[1] = 2
      /\ pc[1] \in AfterLoop )
    => /\ avg_disk_per_node[1] = Fin(65, 0)
       /\ Len(all_groups[1]) = 2
       /\ DOMAIN folders[HardFolder].files = { 1, 2 }
       /\ { "A", "D" } \subseteq Tokens(folders[HardFolder].files[1])
       /\ { "C", "B" } \subseteq Tokens(folders[HardFolder].files[2])

\* C4: with node_count < 1 the run fails before the storage is reset, before
\* any file is written and before the working sequence is touched.
C4_InfeasibleBudget ==
    \A r \in Runs :
        (pc[r] \notin { "idle", "nodes" } /\ nodes[r] < 1)
        => pc[r] \notin PastReset

\* C5: an empty and a single-item list (node_count >= 1) do not make
\* balance_nodes raise.
C5_BoundaryInputs ==
    \A r \in Runs :
        (Len(df[r]) <= 1 /\ nodes[r] >= 1) => pc[r] # "raised"

C7_CpuBudget ==
    \A r \in Runs :
        /\ pc[r] \in AfterLoop => Len(all_groups[r]) <= nodes[r]
        /\ pc[r] = "done" =>
            Len(all_groups[r]) * configs[r].cpu_per_node
                <= configs[r].max_cpu_request

C9_Independence ==
    ( /\ configs[1].sra_list_folder # configs[2].sra_list_folder
      /\ configs[1].sra_query_file # configs[2].sra_query_file )
    => \A f \in FolderNames : \A k \in DOMAIN folders[f].files :
          ~ ( /\ Tokens(folders[f].files[k]) \cap InputIds(1) # {}
              /\ Tokens(folders[f].files[k]) \cap InputIds(2) # {} )

\* C10: after a completed run the group files and the index file hold only
\* what this run wrote, whatever existed before.
C10_ResetBeforeWrite ==
    \A r \in Runs : pc[r] = "done" =>
        /\ WrittenIds \subseteq InputIds(r)
        /\ query_files[HardQueue].text = Join(all_groups[r])

\* a size string that is a number, or a number followed by one unit
WellFormedSize(value) ==
    \/ ~IsStr(value)
    \/ ParsesAsFloat(value.str)
    \/ LET s == Strip(value.str)
       IN  /\ Len(s) >= 3
           /\ SubSeq(s, Len(s) - 1, Len(s)) \in {GB, MB, KB}
           /\ ParsesAsFloat(SubSeq(s, 1, Len(s) - 2))

\* C11: convert_size never raises: no run ends with a ValueError because of a
\* size value, and every malformed size string is normalised to 0.
C11_NeverRaises ==
    \A r \in Runs :
        /\ err[r] # "ValueError"
        /\ pc[r] = "convert" =>
              \A i \in 1..Len(df[r]) :
                 /\ ~ValueErrorRaised(df[r][i].run_1_size)
                 /\ ~WellFormedSize(df[r][i].run_1_size)
                       => convert_size(df[r][i].run_1_size) = Num(0, 1)

RECURSIVE Flatten(_)
Flatten(text) ==
    IF text = <<>> THEN <<>> ELSE Head(text) \o Flatten(Tail(text))

Occurrences(seq, x) == Cardinality({ i \in 1..Len(seq) : seq[i] = x })

RemainingIds(r) ==
    [i \in 1..Len(df_sorted[r]) |-> df_sorted[r][i].run_1_accession]

GroupFiles ==
    UNION { { << f, k >> : k \in DOMAIN folders[f].files } : f \in FolderNames }

\* C12: with pairwise distinct item ids, every id is in at most one place (the
\* working sequence, the open group, one written group), once.
C12_NoDuplication ==
    \A r \in Runs : \A id \in InputIds(r) :
        /\ Occurrences(RemainingIds(r), id) + Occurrences(curr_group[r], id) <= 1
        /\ \A g \in GroupFiles :
              id \in Tokens(folders[g[1]].files[g[2]]) =>
                /\ Occurrences(RemainingIds(r), id) = 0
                /\ Occurrences(curr_group[r], id) = 0
                /\ Occurrences(Flatten(folders[g[1]].files[g[2]]), id) = 1
                /\ \A h \in GroupFiles \ {g} :
                      id \notin Tokens(folders[h[1]].files[h[2]])

C12_Witness ==
    /\ pc[1] = "loop"
    /\ Len(all_groups[1]) = 1
    /\ 1 \in DOMAIN folders[HardFolder].files
    /\ Len(Flatten(folders[HardFolder].files[1])) = 2
    /\ Len(curr_group[1]) = 1
    /\ Len(df_sorted[1]) = 1

IndexWritten == { "realloc", "update", "json", "done" }

\* C13: the index file written after the loop references the group files of
\* this run, SRA_set_1 .. SRA_set_k for the k closings, each once and in the
\* order of closing, and every written group has at least one member.
C13_IndexFile ==
    \A r \in Runs : pc[r] \in IndexWritten =>
        /\ all_groups[r] = [i \in 1..group[r] |-> GroupFilePath(i)]
        /\ Flatten(query_files[HardQueue].text) = all_groups[r]
        /\ \A i \in 1..group[r] :
              /\ i \in DOMAIN folders[HardFolder].files
              /\ Tokens(folders[HardFolder].files[i]) \cap InputIds(r) # {}

\* the disk_req of the item id of run r
DiskReqOf(r, id) ==
    df[r][CHOOSE i \in 1..Len(df[r]) : df[r][i].run_1_accession = id].disk_req

RECURSIVE GroupWeight(_, _)
GroupWeight(r, members) ==
    IF members = <<>> THEN 0
    ELSE DiskReqOf(r, Head(members)) + GroupWeight(r, Tail(members))

\* C14: at the start of every loop iteration (node_count >= 1) node_size is
\* the sum of the disk_req of the members of the open group.
C14_AccumulatorAccuracy ==
    \A r \in Runs :
        (pc[r] = "loop" /\ nodes[r] >= 1)
            => node_size[r] = GroupWeight(r, curr_group[r])

\* C15: once the loop has stopped (node_count >= 1) at most one input item,
\* the final leftover, is absent from the written group files; the members
\* of the group still open are written.
C15_DropExtent ==
    \A r \in Runs :
        (pc[r] \in AfterLoop /\ nodes[r] >= 1) =>
            /\ Cardinality(InputIds(r) \ WrittenIds) <= 1
            /\ \A i \in 1..Len(curr_group[r]) : curr_group[r][i] \in WrittenIds

LoopState(r) ==
    << pc[r], err[r], df_sorted[r], group[r], curr_group[r], node_size[r] >>

WeightAtMost(weight, avg) ==
    avg.kind = "inf" \/ (avg.kind = "fin" /\ weight <= avg.q)
WeightBelow(weight, avg) ==
    \/ avg.kind = "inf"
    \/ avg.kind = "fin" /\ (weight < avg.q \/ (weight = avg.q /\ avg.r > 0))

\* C17: the sum of the disk_req of the members of every group that is closed
\* and written is at most the final disk_per_node, and strictly below it when
\* the group has two or more members and a seed of positive weight, whatever
\* node_size holds.
C17_TrueGroupWeight ==
    [][ \A r \in Runs :
          (pc[r] = "loop" /\ group'[r] = group[r] + 1) =>
             /\ WeightAtMost(GroupWeight(r, curr_group[r]), avg_disk_per_node[r])
             /\ ( /\ Len(curr_group[r]) >= 2
                  /\ DiskReqOf(r, curr_group[r][1]) > 0 )
                  => WeightBelow(GroupWeight(r, curr_group[r]),
                                 avg_disk_per_node[r]) ]_vars

C17_Witness ==
    /\ pc[1] = "loop"
    /\ nodes[1] >= 1
    /\ group[1] = 1
    /\ curr_group[1] = <<>>
    /\ 1 \in DOMAIN folders[HardFolder].files
    /\ Len(Flatten(folders[HardFolder].files[1])) = 2
    /\ node_size[1] = 0
====
